---- MODULE Spec2Model ----
(***************************************************************************)
(* A model of combine.py: the hosts-file normaliser (load_file_to_set),    *)
(* the backup differ, the whitelist and trim passes of combine, and the    *)
(* dispatch of main.                                                       *)
(*                                                                         *)
(* Byte strings are sequences of one-character strings, so that strip,     *)
(* split, startswith, lower and the two regular expressions are computed   *)
(* character by character as the code computes them.                       *)
(***************************************************************************)
EXTENDS Integers, Sequences, FiniteSets, TLC

VARIABLES
    args,         \* the parsed command line (the argparse namespace)
    pc,           \* where the invocation stands in main ("idle": no process)
    called,       \* the top-level modes main has called in this invocation
    today,        \* the day datetime.now() falls on
    env,          \* the files the program only reads, and what the network serves
    snap,         \* backup/backup: the snapshot file of each source, or NoFile
    queue,        \* backup(): the sorted (hash, url) pairs still to be visited
    r,            \* backup(): the response of the last successful requests.get
    old_data,     \* backup(): old_data of the last source compared
    new_data,     \* backup(): new_data of the last source compared
    report,       \* backup(): what was printed for the last source visited
    visited,      \* backup(): the hashes requested so far in this run, in order
    written_from, \* per source, the content its snapshot was last written from
    data,         \* the accumulator set filled by load_file_to_set
    c,            \* the count of lines read into the accumulator
    line,         \* the raw line load_file_to_set read last
    added,        \* what that line added to the accumulator (nothing or one entry)
    removed,      \* the value apply_whitelist / apply_trim returned last
    before,       \* the accumulator as it was when the last filter pass began
    outfile,      \* the combined hosts files written by combine()
    table,        \* interactive_search(): the rows of the hosts table
    partial,      \* interactive_search(): the partial / exact toggle
    answer        \* what the last search printed

vars == <<args, pc, called, today, env, snap, queue, r, old_data, new_data,
          report, visited, written_from, data, c, line, added, removed,
          before, outfile, table, partial, answer>>

\* the bounds of the model
MaxDay == 2
MaxLines == 2

(***************************************************************************)
(* Bytes.                                                                  *)
(***************************************************************************)

\* The ASCII characters of the model in byte order (the vertical tab of
\* string.whitespace has no TLA+ escape and is left out, as is the backquote).
Ascii ==
    << "\t", "\n", "\f", "\r", " ", "!", "\"", "#", "$", "%", "&", "'", "(",
       ")", "*", "+", ",", "-", ".", "/",
       "0", "1", "2", "3", "4", "5", "6", "7", "8", "9",
       ":", ";", "<", "=", ">", "?", "@",
       "A", "B", "C", "D", "E", "F", "G", "H", "I", "J", "K", "L", "M",
       "N", "O", "P", "Q", "R", "S", "T", "U", "V", "W", "X", "Y", "Z",
       "[", "\\", "]", "^", "_",
       "a", "b", "c", "d", "e", "f", "g", "h", "i", "j", "k", "l", "m",
       "n", "o", "p", "q", "r", "s", "t", "u", "v", "w", "x", "y", "z",
       "{", "|", "}", "~" >>

Chars == { Ascii[i] : i \in 1..Len(Ascii) }

Ord == [ ch \in Chars |-> CHOOSE i \in 1..Len(Ascii) : Ascii[i] = ch ]

UpperCase == SubSeq(Ascii, Ord["A"], Ord["Z"])
LowerCase == SubSeq(Ascii, Ord["a"], Ord["z"])
Digits    == { Ascii[i] : i \in Ord["0"]..Ord["9"] }

\* bytes.lower() on one byte
LowerChar(ch) ==
    IF \E i \in 1..Len(UpperCase) : UpperCase[i] = ch
    THEN LowerCase[CHOOSE i \in 1..Len(UpperCase) : UpperCase[i] = ch]
    ELSE ch

\* bytes.lower()
Lower(s) == [ i \in 1..Len(s) |-> LowerChar(s[i]) ]

\* string.whitespace
whitespace == { " ", "\t", "\n", "\r", "\f" }

\* strip_chars = whitespace + '/'
strip_chars == whitespace \cup { "/" }

RECURSIVE LStrip(_, _)
LStrip(s, set) ==
    IF s = <<>> THEN s
    ELSE IF Head(s) \in set THEN LStrip(Tail(s), set) ELSE s

RECURSIVE RStrip(_, _)
RStrip(s, set) ==
    IF s = <<>> THEN s
    ELSE IF s[Len(s)] \in set THEN RStrip(SubSeq(s, 1, Len(s) - 1), set) ELSE s

\* bytes.strip(set)
Strip(s, set) == RStrip(LStrip(s, set), set)

\* bytes.startswith(p)
StartsWith(s, p) == Len(s) >= Len(p) /\ SubSeq(s, 1, Len(p)) = p

\* s[n:]
From(s, n) == SubSeq(s, n + 1, Len(s))

\* the length of the longest prefix of s made of characters outside set
RECURSIVE SpanOutside(_, _)
SpanOutside(s, set) ==
    IF s = <<>> \/ Head(s) \in set THEN 0 ELSE 1 + SpanOutside(Tail(s), set)

\* bytes.split(): the maximal runs of non-whitespace bytes, in order
RECURSIVE Split(_)
Split(s) ==
    LET t == LStrip(s, whitespace)
        n == SpanOutside(t, whitespace)
    IN  IF t = <<>> THEN <<>>
        ELSE <<SubSeq(t, 1, n)>> \o Split(From(t, n))

\* the pieces of s between occurrences of ch (like bytes.split(ch))
RECURSIVE SplitOn(_, _)
SplitOn(s, ch) ==
    LET n == SpanOutside(s, {ch})
    IN  IF n = Len(s) THEN <<s>>
        ELSE <<SubSeq(s, 1, n)>> \o SplitOn(From(s, n + 1), ch)

\* lexicographic order on byte strings, as sorted() orders bytes objects
RECURSIVE BytesLess(_, _)
BytesLess(s, t) ==
    IF t = <<>> THEN FALSE
    ELSE IF s = <<>> THEN TRUE
    ELSE IF Head(s) = Head(t) THEN BytesLess(Tail(s), Tail(t))
    ELSE Ord[Head(s)] < Ord[Head(t)]

\* sorted(set of bytes)
RECURSIVE Sorted(_)
Sorted(S) ==
    IF S = {} THEN <<>>
    ELSE LET m == CHOOSE x \in S : \A y \in S \ {x} : BytesLess(x, y)
         IN  <<m>> \o Sorted(S \ {m})

(***************************************************************************)
(* The normaliser: load_file_to_set.                                       *)
(***************************************************************************)

\* blacklist = {b'localhost', b'localhost.localdomain', b'broadcasthost', b'local'}
blacklist ==
    { <<"l","o","c","a","l","h","o","s","t">>,
      <<"l","o","c","a","l","h","o","s","t",".",
        "l","o","c","a","l","d","o","m","a","i","n">>,
      <<"b","r","o","a","d","c","a","s","t","h","o","s","t">>,
      <<"l","o","c","a","l">> }

\* the characters the first group of keep_regex excludes
KeepExcluded == { "#", "*", "<", ">", ":", "/", "\\", "{", "}" }

\* '.*$' : no newline, except that '$' also matches before a final newline
DotStarToEnd(s) ==
    \A i \in 1..Len(s) : s[i] = "\n" => i = Len(s)

\* keep_regex as if it cut the line at the first excluded character of any kind
keep_regex_cut_anywhere(s) ==
    [ok |-> TRUE, g1 |-> SubSeq(s, 1, SpanOutside(s, KeepExcluded))]

\* keep_regex.match(line): [ok |-> whether it matches, g1 |-> its first group].
\* The first group is the longest prefix free of excluded characters; what
\* follows must be nothing, or a '#' comment running to the end of the line.
keep_regex(s) ==
    LET n    == SpanOutside(s, KeepExcluded)
        rest == From(s, n)
    IN  IF rest = <<>> THEN [ok |-> TRUE, g1 |-> s]
        ELSE IF Head(rest) = "#" /\ DotStarToEnd(Tail(rest))
             THEN [ok |-> TRUE, g1 |-> SubSeq(s, 1, n)]
             ELSE [ok |-> FALSE, g1 |-> <<>>]

\* ignore_regex.match(tok): four non-empty runs of digits joined by dots
ignore_regex(tok) ==
    LET parts == SplitOn(tok, ".")
    IN  /\ Len(parts) = 4
        /\ \A i \in 1..4 :
              /\ parts[i] # <<>>
              /\ \A j \in 1..Len(parts[i]) : parts[i][j] \in Digits

Loopback == <<"1","2","7",".","0",".","0",".","1">>
ZeroAddr == <<"0",".","0",".","0",".","0">>

\* One pass of the loop body of load_file_to_set: the set of entries the raw
\* line adds to data (empty, or one entry address + TAB + lower-cased domain).
Normalize(raw) ==
    LET s1 == Strip(raw, strip_chars)
        m  == keep_regex(s1)
        s2 == Strip(m.g1, strip_chars)
        s3 == IF StartsWith(s2, Loopback) THEN ZeroAddr \o From(s2, 9)
              ELSE IF ~StartsWith(s2, ZeroAddr) THEN ZeroAddr \o <<"\t">> \o s2
              ELSE s2
        split == Split(s3)
    IN  IF ~m.ok \/ s2 = <<>> \/ Len(split) # 2 THEN {}
        ELSE IF \/ split[2] \in blacklist
                \/ ignore_regex(split[2])
                \/ "." \notin { split[2][i] : i \in 1..Len(split[2]) }
             THEN {}
             ELSE { split[1] \o <<"\t">> \o Lower(split[2]) }

\* load_file_to_set(opened_hostfile, data): the accumulator after every line
\* of the file has been read and the number of lines read.
RECURSIVE load_file_to_set(_, _)
load_file_to_set(lines, acc) ==
    IF lines = <<>> THEN [data |-> acc, c |-> 0]
    ELSE LET rest == load_file_to_set(Tail(lines), acc \cup Normalize(Head(lines)))
         IN  [data |-> rest.data, c |-> rest.c + 1]


(***************************************************************************)
(* Files: a file is its text, a sequence of bytes.                         *)
(***************************************************************************)

NoFile == "NoFile"

NL == <<"\n">>
SP == <<" ">>
TAB == <<"\t">>

\* iterating an opened file: its lines, each with its line feed kept
RECURSIVE Lines(_)
Lines(text) ==
    LET n == SpanOutside(text, {"\n"})
    IN  IF text = <<>> THEN <<>>
        ELSE IF n = Len(text) THEN <<text>>
        ELSE <<SubSeq(text, 1, n + 1)>> \o Lines(From(text, n + 1))

\* sep.join(seq)
RECURSIVE Join(_, _)
Join(seq, sep) ==
    IF seq = <<>> THEN <<>>
    ELSE IF Len(seq) = 1 THEN seq[1]
    ELSE seq[1] \o sep \o Join(Tail(seq), sep)

\* load_file_to_set on a whole file, into an empty or a given set
Load(text, acc) == load_file_to_set(Lines(text), acc)

\* the entry lines a snapshot file holds: its lines after the three header
\* lines, as they stand in the file
EntryLines(file) ==
    IF file = NoFile THEN {}
    ELSE LET ls == Lines(file)
         IN  { RStrip(ls[i], {"\n"}) : i \in 4..Len(ls) }

(***************************************************************************)
(* backup(): the source list, the request, the differ, the snapshot.       *)
(***************************************************************************)

hash_length == 8

UrlA == <<"h","t","t","p",":","/","/","x",".","c","o","/","a">>
UrlB == <<"h","t","t","p",":","/","/","x",".","c","o","/","b">>

\* backup/sources.txt: a commented line, two sources and a blank line
SourcesFile ==
    <<"#"," ","l","i","s","t","s">> \o NL \o UrlB \o NL \o NL \o UrlA \o NL

\* hashlib.sha256(url).hexdigest()[:hash_length], on the urls of the model
Sha256Prefix(url) ==
    CASE url = UrlA -> <<"a","b","2","3","e","e","b","7">>
      [] url = UrlB -> <<"b","0","6","2","4","8","2","c">>
      [] url = <<>> -> <<"e","3","b","0","c","4","4","2">>

HashA == Sha256Prefix(UrlA)
HashB == Sha256Prefix(UrlB)
HashEmpty == Sha256Prefix(<<>>)
Hashes == { HashA, HashB, HashEmpty }

\* the dict comprehension of backup(): {hash: url} over the uncommented lines
SourcesDict ==
    LET ls == Lines(SourcesFile)
        urls == { Strip(ls[i], whitespace) :
                    i \in { j \in 1..Len(ls) : ~StartsWith(ls[j], <<"#">>) } }
    IN  { <<Sha256Prefix(u), u>> : u \in urls }

\* the --select / --ignore filters of backup()
Selected(a) ==
    IF a.select # {} THEN { p \in SourcesDict : p[1] \in a.select }
    ELSE IF a.ignore # {} THEN { p \in SourcesDict : p[1] \notin a.ignore }
    ELSE SourcesDict

\* sorted(sources.items(), key=url)
RECURSIVE SortedByUrl(_)
SortedByUrl(S) ==
    IF S = {} THEN <<>>
    ELSE LET m == CHOOSE p \in S : \A q \in S \ {p} : BytesLess(p[2], q[2])
         IN  <<m>> \o SortedByUrl(S \ {m})

\* the try block: requests.get raised ConnectionError, or the status is >= 400
Failed(resp) == resp.raises \/ resp.status_code >= 400

\* the differ as if the comparison without --keep-old never skipped
DifferNeverSkips(old, new, keep_old) ==
    IF keep_old
    THEN IF Cardinality(new \ old) = 0
         THEN [write |-> FALSE, new_data |-> new]
         ELSE [write |-> TRUE, new_data |-> new \cup old]
    ELSE [write |-> TRUE, new_data |-> new]

\* the differ as if old entries were always kept
DifferAlwaysKeeps(old, new, keep_old) ==
    IF Cardinality(new \ old) = 0
    THEN [write |-> FALSE, new_data |-> new]
    ELSE [write |-> TRUE, new_data |-> new \cup old]

\* the differ of backup(): whether the snapshot is written, and new_data as
\* it stands afterwards (the union with old_data under --keep-old)
Differ(old, new, keep_old) ==
    IF keep_old
    THEN IF Cardinality(new \ old) = 0
         THEN [write |-> FALSE, new_data |-> new]
         ELSE [write |-> TRUE, new_data |-> new \cup old]
    ELSE IF new = old
         THEN [write |-> FALSE, new_data |-> new]
         ELSE [write |-> TRUE, new_data |-> new]

\* strftime("%Y-%m-%d") of the model's days, which all fall in one month
DateStr(day) ==
    <<"2","0","2","4","-","0","1","-","0">> \o <<Ascii[Ord["0"] + day]>>

\* the text written to a snapshot: the three header lines, then the entries
SnapshotText(url, day, entries) ==
    <<"#"," ">> \o url \o NL
    \o <<"#"," ","B","a","c","k","e","d"," ","u","p"," ","o","n",":"," ">>
    \o DateStr(day) \o NL \o NL
    \o Join(Sorted(entries), NL)

\* the pc after backup() returns: main's tests of args.clean and args.combine
AfterBackup(a) ==
    IF a.clean THEN "at_clean" ELSE IF a.combine THEN "at_combine" ELSE "idle"

\* the end of a pass of the loop: on to the next source
NextSource(q) == Tail(q)

\* a failure that ended the loop instead of going on
AfterOfflineStops(q) == <<>>

\* the `continue` after 'offline': on to the next source
AfterOffline(q) == Tail(q)

\* the responses the network may give to the request of this pass
Serves ==
    IF pc = "in_backup" /\ queue # <<>> /\ queue[1][2] \in DOMAIN env.responses
    THEN env.responses[queue[1][2]]
    ELSE {}

NoResponse == [raises |-> FALSE, status_code |-> 0, content |-> <<>>]
NoReport == [msg |-> "", html |-> FALSE, status_warning |-> FALSE]

\* backup() up to its loop: the selected sources, sorted by url
BackupBegin ==
    /\ pc = "at_backup"
    /\ called' = Append(called, "backup")
    /\ visited' = <<>>
    /\ IF Selected(args) = {}
       THEN /\ pc' = AfterBackup(args)
            /\ queue' = <<>>
       ELSE /\ pc' = "in_backup"
            /\ queue' = SortedByUrl(Selected(args))
    /\ UNCHANGED <<args, today, env, snap, r, old_data, new_data, report,
                   written_from, data, c, line, added, removed, before,
                   outfile, table, partial, answer>>

\* one pass of the loop of backup() over a source whose url is empty
BackupBlank ==
    /\ pc = "in_backup" /\ queue # <<>>
    /\ queue[1][2] = <<>>
    /\ queue' = NextSource(queue)
    /\ pc' = IF queue' = <<>> THEN AfterBackup(args) ELSE "in_backup"
    /\ UNCHANGED <<args, called, today, env, snap, r, old_data, new_data,
                   report, visited, written_from, data, c, line, added,
                   removed, before, outfile, table, partial, answer>>

\* one pass of the loop of backup(): request the source, compare, write
BackupSource(resp) ==
    LET h   == queue[1][1]
        url == queue[1][2]
        old == IF snap[h] # NoFile THEN Load(snap[h], {}).data ELSE {}
        new == Load(resp.content, {}).data
        d   == Differ(old, new, args.keep_old)
    IN  /\ pc = "in_backup" /\ queue # <<>>
        /\ url # <<>>
        /\ visited' = Append(visited, h)
        /\ queue' = IF Failed(resp) THEN AfterOffline(queue) ELSE NextSource(queue)
        /\ pc' = IF queue' = <<>> THEN AfterBackup(args) ELSE "in_backup"
        /\ r' = IF resp.raises THEN r ELSE resp
        /\ IF Failed(resp)
           THEN /\ report' = [NoReport EXCEPT !.msg = "offline"]
                /\ UNCHANGED <<snap, old_data, new_data, written_from>>
           ELSE /\ old_data' = old
                /\ new_data' = d.new_data
                /\ report' =
                     [msg |-> IF d.write THEN "wrote"
                              ELSE "nothing changed, skipping.",
                      html |-> StartsWith(resp.content, <<"<">>),
                      status_warning |-> resp.status_code >= 300]
                /\ IF d.write
                   THEN /\ snap' = [snap EXCEPT
                                      ![h] = SnapshotText(url, today, d.new_data)]
                        /\ written_from' =
                             [written_from EXCEPT ![h] = resp.content]
                   ELSE UNCHANGED <<snap, written_from>>
        /\ UNCHANGED <<args, called, today, env, data, c, line, added,
                       removed, before, outfile, table, partial, answer>>

\* the clock: the day changes (between two invocations)
Midnight ==
    /\ pc = "idle"
    /\ today < MaxDay
    /\ today' = today + 1
    /\ UNCHANGED <<args, pc, called, env, snap, queue, r, old_data, new_data,
                   report, visited, written_from, data, c, line, added,
                   removed, before, outfile, table, partial, answer>>

(***************************************************************************)
(* clean().                                                                *)
(***************************************************************************)

\* clean() on one file: keep the first three lines if they start with '#',
\* re-normalise the rest and write it back sorted
CleanFile(text) ==
    LET ls     == Lines(text)
        k      == IF Len(ls) < 3 THEN Len(ls) ELSE 3
        first3 == Join(SubSeq(ls, 1, k), <<>>)
        hdr    == StartsWith(first3, <<"#">>)
        rest   == IF hdr THEN SubSeq(ls, k + 1, Len(ls)) ELSE ls
    IN  (IF hdr THEN first3 ELSE <<>>)
        \o Join(Sorted(load_file_to_set(rest, {}).data), NL)

\* the pc after clean() returns: main's test of args.combine
AfterClean(a) == IF a.combine THEN "at_combine" ELSE "idle"

Clean ==
    /\ pc = "at_clean"
    /\ called' = Append(called, "clean")
    /\ snap' = [h \in Hashes |->
                  IF snap[h] = NoFile THEN NoFile ELSE CleanFile(snap[h])]
    /\ pc' = AfterClean(args)
    /\ UNCHANGED <<args, today, env, queue, r, old_data, new_data, report,
                   visited, written_from, data, c, line, added, removed,
                   before, outfile, table, partial, answer>>

(***************************************************************************)
(* combine(): store_hosts, apply_whitelist, apply_trim, the output file.   *)
(***************************************************************************)

\* store_hosts(data, source_dir) over the files of the directory
RECURSIVE store_hosts(_, _)
store_hosts(acc, files) ==
    IF files = <<>> THEN [data |-> acc, c |-> 0]
    ELSE LET one  == Load(Head(files), acc)
             rest == store_hosts(one.data, Tail(files))
         IN  [data |-> rest.data, c |-> one.c + rest.c]

\* os.listdir(backup_hosts_destination_dir): the snapshot files that exist
BackupDir ==
    LET hs == Sorted({ h \in Hashes : snap[h] # NoFile })
    IN  [ i \in 1..Len(hs) |-> snap[hs[i]] ]

\* the address and the domain of an entry
Addr(e) == SplitOn(e, "\t")[1]
Dom(e) == SplitOn(e, "\t")[2]

\* a whitelist pass that matched on the domain alone
apply_whitelist_by_domain(set, wfile) ==
    LET w     == Load(wfile, {}).data
        after == { e \in set : \A x \in w : Dom(x) # Dom(e) }
    IN  [data |-> after, n |-> Cardinality(set) - Cardinality(after)]

\* apply_whitelist(data): the set after the pass and the value returned
apply_whitelist(set, wfile) ==
    LET w     == Load(wfile, {}).data
        after == set \ w
    IN  [data |-> after, n |-> Cardinality(set) - Cardinality(after)]

\* re.compile on the patterns of the model: literal bytes and '.', with an
\* optional leading '^' and an optional trailing '$'
Compile(pattern) ==
    LET bol == pattern # <<>> /\ Head(pattern) = "^"
        p1  == IF bol THEN Tail(pattern) ELSE pattern
        eol == p1 # <<>> /\ p1[Len(p1)] = "$"
        p2  == IF eol THEN SubSeq(p1, 1, Len(p1) - 1) ELSE p1
    IN  [bol |-> bol, eol |-> eol, body |-> p2]

\* regex.search(t)
Search(rx, t) ==
    \E i \in 1..(Len(t) + 1) :
        LET last == i + Len(rx.body) - 1
        IN  /\ rx.bol => i = 1
            /\ last <= Len(t)
            /\ \A j \in 1..Len(rx.body) :
                  \/ rx.body[j] = t[i + j - 1]
                  \/ rx.body[j] = "." /\ t[i + j - 1] # "\n"
            /\ rx.eol => \/ last = Len(t)
                         \/ last = Len(t) - 1 /\ t[Len(t)] = "\n"

\* the list of compiled rules read from the trim file
Regexes(tfile) ==
    LET ls   == Lines(tfile)
        keep == SelectSeq(ls, LAMBDA l : Strip(l, whitespace) # <<>>)
    IN  [ i \in 1..Len(keep) |-> Compile(Strip(keep[i], whitespace)) ]

\* the inner loop of apply_trim: the rules tried in order, up to the first match
RECURSIVE FirstMatch(_, _)
FirstMatch(regexes, test_line) ==
    IF regexes = <<>> THEN FALSE
    ELSE IF Search(Head(regexes), test_line) THEN TRUE
    ELSE FirstMatch(Tail(regexes), test_line)

\* apply_trim(data): the set after the pass and the value returned
apply_trim(set, regexes) ==
    LET to_remove == { l \in set : FirstMatch(regexes, From(l, 8)) }
    IN  [data |-> set \ to_remove, n |-> Cardinality(to_remove)]

AfterWhitelist(a) == IF a.trim THEN "at_trim" ELSE "at_write"
AfterMerge(a) == IF ~a.ignore_whitelist THEN "at_whitelist" ELSE AfterWhitelist(a)

\* combine() up to the filters: the sources directory, and the backups with -e
CombineMerge ==
    LET m1 == store_hosts({}, env.sources_dir)
        m2 == IF args.everything THEN store_hosts(m1.data, BackupDir)
              ELSE [data |-> m1.data, c |-> 0]
    IN  /\ pc = "at_combine"
        /\ called' = Append(called, "combine")
        /\ data' = m2.data
        /\ c' = m1.c + m2.c
        /\ pc' = AfterMerge(args)
        /\ UNCHANGED <<args, today, env, snap, queue, r, old_data, new_data,
                       report, visited, written_from, line, added, removed,
                       before, outfile, table, partial, answer>>

CombineWhitelist ==
    LET res == apply_whitelist(data, env.whitelist)
    IN  /\ pc = "at_whitelist"
        /\ before' = data
        /\ data' = res.data
        /\ removed' = res.n
        /\ pc' = AfterWhitelist(args)
        /\ UNCHANGED <<args, called, today, env, snap, queue, r, old_data,
                       new_data, report, visited, written_from, c, line,
                       added, outfile, table, partial, answer>>

CombineTrim ==
    LET res == apply_trim(data, Regexes(env.trim))
    IN  /\ pc = "at_trim"
        /\ before' = data
        /\ data' = res.data
        /\ removed' = res.n
        /\ pc' = "at_write"
        /\ UNCHANGED <<args, called, today, env, snap, queue, r, old_data,
                       new_data, report, visited, written_from, c, line,
                       added, outfile, table, partial, answer>>

\* fname = combined_everything_hosts if args.everything else combined_hosts
OutName(a) == IF a.everything THEN "everything" ELSE "plain"

CombineWrite ==
    /\ pc = "at_write"
    /\ outfile' = [outfile EXCEPT ![OutName(args)] = Join(Sorted(data), NL)]
    /\ pc' = "idle"
    /\ UNCHANGED <<args, called, today, env, snap, queue, r, old_data,
                   new_data, report, visited, written_from, data, c, line,
                   added, removed, before, table, partial, answer>>

(***************************************************************************)
(* search_file() and interactive_search().                                 *)
(***************************************************************************)

\* [line.strip() for line in f if line.strip()]
StrippedLines(text) ==
    LET ls   == Lines(text)
        keep == SelectSeq(ls, LAMBDA l : Strip(l, whitespace) # <<>>)
    IN  [ i \in 1..Len(keep) |-> Strip(keep[i], whitespace) ]

\* search_file(): one verdict per line of the search file; opening a source
\* file that does not exist raises, which ends the process
SearchFile ==
    LET src   == outfile[args.search_source_file]
        set   == Load(src, {}).data
        lines == StrippedLines(env.search_file)
    IN  /\ pc = "at_search_file"
        /\ called' = Append(called, "search_file")
        /\ pc' = "idle"
        /\ IF src = NoFile
           THEN UNCHANGED <<data, answer>>
           ELSE /\ data' = set
                /\ answer' = [ i \in 1..Len(lines) |->
                                 (ZeroAddr \o TAB \o lines[i]) \in set ]
        /\ UNCHANGED <<args, today, env, snap, queue, r, old_data, new_data,
                       report, visited, written_from, c, line, added,
                       removed, before, outfile, table, partial>>

\* interactive_search() up to its loop: the table of hosts
SearchBegin ==
    LET src == outfile[args.search_source_file]
    IN  /\ pc = "at_search"
        /\ called' = Append(called, "interactive_search")
        /\ IF src = NoFile
           THEN /\ pc' = "idle"
                /\ UNCHANGED <<table, partial>>
           ELSE /\ pc' = "in_search"
                /\ table' = { From(l, 8) : l \in
                                { StrippedLines(src)[i] :
                                    i \in 1..Len(StrippedLines(src)) } }
                /\ partial' = FALSE
        /\ UNCHANGED <<args, today, env, snap, queue, r, old_data, new_data,
                       report, visited, written_from, data, c, line, added,
                       removed, before, outfile, answer>>

\* whether t holds p as a substring
Contains(t, p) ==
    \E i \in 1..(Len(t) + 1) :
        i + Len(p) - 1 <= Len(t) /\ SubSeq(t, i, i + Len(p) - 1) = p

\* one pass of the loop of interactive_search(); the inputs of the model hold
\* no LIKE wildcard, so that LIKE '%inp%' is a case-blind substring test
SearchInput(inp) ==
    /\ pc = "in_search"
    /\ IF inp = <<"q">>
       THEN pc' = "idle" /\ UNCHANGED <<partial, answer>>
       ELSE IF inp = <<"p">>
       THEN partial' = ~partial /\ UNCHANGED <<pc, answer>>
       ELSE /\ answer' = IF partial
                         THEN { h \in table : Contains(Lower(h), Lower(inp)) }
                         ELSE inp \in table
            /\ UNCHANGED <<pc, partial>>
    /\ UNCHANGED <<args, called, today, env, snap, queue, r, old_data,
                   new_data, report, visited, written_from, data, c, line,
                   added, removed, before, outfile, table>>

(***************************************************************************)
(* The module-level checks and main().                                     *)
(***************************************************************************)

\* the checks made before main(): whether the process exits at once
ExitsAtStartup(a) ==
    \/ a.search /\ a.search_file
    \/ ~(a.search /\ a.search_file) /\ a.select # {} /\ a.ignore # {}
    \/ \E h \in (IF a.select # {} THEN a.select ELSE a.ignore) :
          Len(h) # hash_length

\* main() as if the search modes were tested after backup
MainEntryBackupFirst(a) ==
    IF a.backup THEN "at_backup"
    ELSE IF a.search_file THEN "at_search_file"
    ELSE IF a.search THEN "at_search"
    ELSE AfterBackup(a)

\* main(): the first mode it calls
MainEntry(a) ==
    IF a.search_file THEN "at_search_file"
    ELSE IF a.search THEN "at_search"
    ELSE IF a.backup THEN "at_backup"
    ELSE AfterBackup(a)

\* one invocation of the program with the command line a: a new process,
\* whose memory starts empty, runs the module-level checks and enters main()
Invoke(a) ==
    /\ pc = "idle"
    /\ args' = a
    /\ called' = <<>>
    /\ pc' = IF ExitsAtStartup(a) THEN "idle" ELSE MainEntry(a)
    /\ queue' = <<>>
    /\ r' = NoResponse
    /\ old_data' = {}
    /\ new_data' = {}
    /\ report' = NoReport
    /\ visited' = <<>>
    /\ data' = {}
    /\ c' = 0
    /\ removed' = 0
    /\ before' = {}
    /\ table' = {}
    /\ partial' = FALSE
    /\ answer' = <<>>
    /\ UNCHANGED <<today, env, snap, written_from, line, added, outfile>>

(***************************************************************************)
(* The loop body of load_file_to_set, one raw line at a time.              *)
(***************************************************************************)

ReadLine(raw) ==
    /\ pc = "idle"
    /\ c < MaxLines
    /\ c' = c + 1
    /\ line' = raw
    /\ added' = Normalize(raw)
    /\ data' = data \cup Normalize(raw)
    /\ UNCHANGED <<args, pc, called, today, env, snap, queue, r, old_data,
                   new_data, report, visited, written_from, removed, before,
                   outfile, table, partial, answer>>

(***************************************************************************)
(* Inputs: domains, raw lines, documents, command lines, environments.     *)
(***************************************************************************)

dom_a == <<"a",".","c","o">>
dom_b == <<"b",".","c","o">>
dom_c == <<"c",".","c","o">>
dom_A == <<"A",".","C","o">>
dom_L == <<"L","o","c","a","l","h","o","s","t",".",
           "L","o","c","a","l","d","o","m","a","i","n">>
dom_ip == <<"1",".","2",".","3",".","4">>
dom_nodot == <<"a","c","o">>
dom_loop == Loopback \o <<".","c","o">>
dom_zero == ZeroAddr \o <<".","c","o">>

TestDomains ==
    { dom_a, dom_A, dom_b, dom_L, dom_ip, dom_nodot, dom_loop, dom_zero }
    \cup blacklist

\* the three spellings of one domain in a hosts file
Forms(d) == { Loopback \o SP \o d, ZeroAddr \o SP \o d, d }

Pair == ZeroAddr \o SP \o dom_a
Gaps == { <<>>, SP }
TrailingTexts == { <<>>, <<"t","*">> }

\* a valid pair followed by one of the excluded characters and some text
MarkedLines ==
    { Pair \o g \o <<x>> \o t : x \in KeepExcluded, g \in Gaps, t \in TrailingTexts }

OddLines ==
    { ZeroAddr \o <<"0">> \o SP \o dom_a,
      Loopback \o <<"0">> \o SP \o dom_a,
      dom_ip \o SP \o dom_a,
      dom_a \o SP \o dom_b,
      ZeroAddr,
      <<>>,
      NL,
      <<"/","/">> \o dom_A \o <<"\r","\n">>,
      TAB \o dom_b \o SP \o NL }

RawLines ==
    UNION { Forms(d) : d \in TestDomains } \cup MarkedLines \cup OddLines

DocEmpty == <<>>
DocAB == ZeroAddr \o SP \o dom_a \o NL \o Loopback \o SP \o dom_b \o NL
DocBC == dom_b \o NL \o dom_c \o <<" ","#"," ","n","e","w">> \o NL
DocL  == ZeroAddr \o SP \o dom_L \o NL

Ok(code, doc) == [raises |-> FALSE, status_code |-> code, content |-> doc]
Offline == [raises |-> TRUE, status_code |-> 0, content |-> <<>>]

\* what each url may serve: the first source changes its document, is
\* redirected, fails; the second serves one document or is offline
ResponsesBackup ==
    [u \in {UrlA, UrlB} |->
       IF u = UrlA
       THEN { Offline, Ok(404, DocAB), Ok(302, DocBC),
              Ok(200, DocEmpty), Ok(200, DocAB), Ok(200, DocBC), Ok(200, DocL) }
       ELSE { Offline, Ok(200, DocAB) }]
ResponsesMain ==
    [u \in {UrlA, UrlB} |->
       IF u = UrlA THEN { Offline, Ok(200, DocAB) } ELSE { Offline }]

File1 == Loopback \o SP \o dom_a \o NL
         \o ZeroAddr \o SP \o dom_b \o <<" ","#"," ","a","d">> \o NL
File2 == ZeroAddr \o SP \o dom_a \o NL
         \o Loopback \o <<"0">> \o SP \o dom_a \o NL
         \o dom_c \o NL

White0 == <<>>
White1 == dom_a \o NL
White2 == ZeroAddr \o <<"0">> \o SP \o dom_a \o NL
          \o <<"#"," ","o","k">> \o NL \o dom_b

Trim1 == <<"^","a">> \o NL
Trim2 == <<"^","a">> \o NL \o NL \o <<"b",".","c",".","$">> \o NL
Trim3 == <<"b",".","c",".","$">> \o NL \o <<"^","a">> \o NL
Trim4 == <<"^","0">>

SearchFileText == dom_a \o NL \o NL \o dom_c \o NL
SearchInputs == { <<"q">>, <<"p">>, dom_a, <<"C","O">> }

EnvMain ==
    [sources_dir |-> <<File1, File2>>, whitelist |-> White1, trim |-> Trim2,
     search_file |-> SearchFileText, responses |-> ResponsesMain]
EnvBackup == [EnvMain EXCEPT !.responses = ResponsesBackup]
EnvsCombine ==
    { [EnvMain EXCEPT !.whitelist = w] : w \in { White0, White1, White2 } }
    \cup { [EnvMain EXCEPT !.trim = t] : t \in { Trim1, Trim2, Trim3, Trim4 } }
    \cup { [EnvMain EXCEPT !.sources_dir = <<File2>>, !.whitelist = White2,
                           !.trim = Trim1] }

NoArgs ==
    [backup |-> FALSE, keep_old |-> FALSE, select |-> {}, ignore |-> {},
     clean |-> FALSE, combine |-> FALSE, everything |-> FALSE,
     ignore_whitelist |-> FALSE, trim |-> FALSE, search |-> FALSE,
     search_file |-> FALSE, search_source_file |-> "everything"]

BadHash == <<"a","b","2","3">>

\* backup runs: with and without --keep-old, --select and --ignore
ArgsBackup ==
    { [NoArgs EXCEPT !.backup = TRUE, !.keep_old = k,
                     !.select = si[1], !.ignore = si[2]] :
        k \in BOOLEAN,
        si \in { <<{}, {}>>, <<{HashA}, {}>>, <<{}, {HashA}>> } }
    \cup { [NoArgs EXCEPT !.backup = TRUE, !.select = {HashEmpty}] }

ArgsKeepOld == { a \in ArgsBackup : a.keep_old }

\* combine runs: every setting of -e, -iw and -t
ArgsCombine ==
    { [NoArgs EXCEPT !.combine = TRUE, !.everything = e,
                     !.ignore_whitelist = iw, !.trim = t] :
        e \in BOOLEAN, iw \in BOOLEAN, t \in BOOLEAN }

\* every combination of the five mode flags, with the options all off or
\* all on, and two command lines the module-level checks refuse
ArgsMain ==
    { [NoArgs EXCEPT !.backup = m[1], !.clean = m[2], !.combine = m[3],
                     !.search_file = m[4], !.search = m[5],
                     !.keep_old = o, !.everything = o, !.trim = o] :
        m \in BOOLEAN \X BOOLEAN \X BOOLEAN \X BOOLEAN \X BOOLEAN,
        o \in BOOLEAN }
    \cup { [NoArgs EXCEPT !.backup = TRUE, !.select = {HashA}, !.ignore = {HashB}],
           [NoArgs EXCEPT !.backup = TRUE, !.select = {BadHash}] }

(***************************************************************************)
(* Specifications.                                                         *)
(***************************************************************************)

NoSnapshots == [h \in Hashes |-> NoFile]

InitWith(e, snapshots) ==
    /\ args = NoArgs
    /\ pc = "idle"
    /\ called = <<>>
    /\ today = 1
    /\ env = e
    /\ snap = snapshots
    /\ queue = <<>>
    /\ r = NoResponse
    /\ old_data = {}
    /\ new_data = {}
    /\ report = NoReport
    /\ visited = <<>>
    /\ written_from = [h \in Hashes |-> NoFile]
    /\ data = {}
    /\ c = 0
    /\ line = <<>>
    /\ added = {}
    /\ removed = 0
    /\ before = {}
    /\ outfile = [n \in {"plain", "everything"} |-> NoFile]
    /\ table = {}
    /\ partial = FALSE
    /\ answer = <<>>

\* the whole program, any command line
Init == InitWith(EnvMain, NoSnapshots)

Next ==
    \/ \E a \in ArgsMain : Invoke(a)
    \/ BackupBegin
    \/ BackupBlank
    \/ \E resp \in Serves : BackupSource(resp)
    \/ Clean
    \/ CombineMerge
    \/ CombineWhitelist
    \/ CombineTrim
    \/ CombineWrite
    \/ SearchFile
    \/ SearchBegin
    \/ \E inp \in SearchInputs : SearchInput(inp)

Spec == Init /\ [][Next]_vars

\* the normaliser alone, fed raw lines
InitNorm == InitWith(EnvMain, NoSnapshots)
NextNorm == \E raw \in RawLines : ReadLine(raw)
SpecNorm == InitNorm /\ [][NextNorm]_vars

\* backup runs against a network that serves any of the documents
InitBackup == InitWith(EnvBackup, NoSnapshots)
BackupSteps ==
    \/ BackupBegin
    \/ BackupBlank
    \/ \E resp \in Serves : BackupSource(resp)
    \/ Midnight
NextBackup == (\E a \in ArgsBackup : Invoke(a)) \/ BackupSteps
SpecBackup == InitBackup /\ [][NextBackup]_vars

\* backup runs that all set --keep-old
NextKeepOld == (\E a \in ArgsKeepOld : Invoke(a)) \/ BackupSteps
SpecKeepOld == InitBackup /\ [][NextKeepOld]_vars

\* combine runs over several directories, whitelists and trim files, with
\* or without a snapshot left by an earlier backup
InitCombine ==
    \E e \in EnvsCombine :
    \E s \in { NoSnapshots,
               [NoSnapshots EXCEPT ![HashA] =
                  SnapshotText(UrlA, 1, Load(DocBC, {}).data)] } :
        InitWith(e, s)
NextCombine ==
    \/ \E a \in ArgsCombine : Invoke(a)
    \/ CombineMerge
    \/ CombineWhitelist
    \/ CombineTrim
    \/ CombineWrite
SpecCombine == InitCombine /\ [][NextCombine]_vars

(***************************************************************************)
(* Properties of the normaliser (checked under SpecNorm).                  *)
(***************************************************************************)

HasDot(d) == "." \in { d[i] : i \in 1..Len(d) }

\* a domain as the data model wants it in an entry
Canonical(d) ==
    /\ d = Lower(d)
    /\ HasDot(d)
    /\ d \notin blacklist
    /\ ~ignore_regex(d)

\* C4: every entry held in the accumulator has a canonical domain: lower-cased,
\* with a dot, not a reserved name, not a bare IPv4 literal.
C4_EntriesCanonical == \A e \in data : Canonical(Dom(e))

\* the stripped line and the place of its first excluded character
Stripped(raw) == Strip(raw, strip_chars)
CutAt(raw) == SpanOutside(Stripped(raw), KeepExcluded)
BeforeCut(raw) == SubSeq(Stripped(raw), 1, CutAt(raw))
CutByHash(raw) ==
    CutAt(raw) < Len(Stripped(raw)) /\ Stripped(raw)[CutAt(raw) + 1] = "#"
CutByOther(raw) ==
    CutAt(raw) < Len(Stripped(raw)) /\ Stripped(raw)[CutAt(raw) + 1] # "#"

PairEntry == ZeroAddr \o TAB \o dom_a

\* C5 as claimed: the line is cut at its first excluded character, whichever
\* it is, and what stands before is normalised as if it were the whole line;
\* a valid pair followed by such a character and text yields the pair's entry.
C5_CutAtAnyExcluded ==
    c > 0 =>
       /\ added = Normalize(BeforeCut(line))
       /\ line \in MarkedLines => added = {PairEntry}

\* C5 as amended: the line is cut only at a '#'. When the first excluded
\* character of the stripped line is '#', what stands before it is normalised
\* as if it were the whole line; when it is any of * < > : / \ { }, the
\* line yields nothing.
C5_CutAtHashOnly ==
    c > 0 =>
       /\ ~CutByOther(line) => added = Normalize(BeforeCut(line))
       /\ CutByOther(line) => added = {}
       /\ (line \in MarkedLines /\ ~CutByOther(line)) => added = {PairEntry}

\* a valid pair followed by '*' and text was read and yielded nothing
C5_Witness ==
    /\ c > 0
    /\ line = Pair \o SP \o <<"*","t","*">>
    /\ added = {}

\* the checks of line 80 on a domain token
PassesDomainChecks(d) == d \notin blacklist /\ ~ignore_regex(d) /\ HasDot(d)

\* C6: for every domain d that passes the domain checks, each of the lines
\* `127.0.0.1 d`, `0.0.0.0 d` and `d` yields the entry (0.0.0.0, lower-case d),
\* so that however many of them are read the accumulator holds that one entry.
C6_PrefixEquivalence ==
    \A d \in TestDomains :
        (c > 0 /\ PassesDomainChecks(d) /\ line \in Forms(d)) =>
            /\ added = { ZeroAddr \o TAB \o Lower(d) }
            /\ added \subseteq data

(***************************************************************************)
(* Properties of backup() (checked under SpecBackup and SpecKeepOld).      *)
(***************************************************************************)

\* this step is a pass of the loop that requested the source at the head of
\* the queue and got a response it did not treat as a failure
Compared ==
    /\ pc = "in_backup" /\ queue # <<>>
    /\ visited' = Append(visited, queue[1][1])
    /\ report'.msg # "offline"

\* this step is a pass of the loop that ended in 'offline'
WentOffline ==
    /\ pc = "in_backup" /\ queue # <<>>
    /\ visited' = Append(visited, queue[1][1])
    /\ report'.msg = "offline"

\* the set the code loads from the stored snapshot, and the set it builds
\* from the content it has just fetched
StoredSet(h) == IF snap[h] = NoFile THEN {} ELSE Load(snap[h], {}).data
FetchedSet == Load(r'.content, {}).data

EntryA == ZeroAddr \o TAB \o dom_a
EntryB == ZeroAddr \o TAB \o dom_b
EntryC == ZeroAddr \o TAB \o dom_c

\* C1: in a run with --keep-old, with old the set loaded from the stored
\* snapshot and new the set built from the fetched content, the snapshot is
\* written iff new \ old is not empty and what is written is new \cup old;
\* every entry the snapshot held before the source was processed is still in
\* the snapshot afterwards.
C1_KeepOldNeverDrops ==
    [][ \A h \in Hashes :
          (Compared /\ args.keep_old /\ h = queue[1][1]) =>
              /\ (report'.msg = "wrote") <=> (FetchedSet \ StoredSet(h) # {})
              /\ report'.msg = "wrote" =>
                     EntryLines(snap'[h]) = FetchedSet \cup StoredSet(h)
              /\ EntryLines(snap[h]) \subseteq EntryLines(snap'[h]) ]_vars

\* C2: without --keep-old, with old the set loaded from the stored snapshot
\* and new the set built from the fetched content, the snapshot is written
\* iff new # old, and what is written is exactly new; no other snapshot is
\* touched.
C2_PlainDiffer ==
    [][ \A h \in Hashes :
          (Compared /\ ~args.keep_old /\ h = queue[1][1]) =>
              /\ (report'.msg = "wrote") <=> (FetchedSet # StoredSet(h))
              /\ report'.msg = "wrote" =>
                     /\ snap'[h] = SnapshotText(queue[1][2], today, FetchedSet)
                     /\ EntryLines(snap'[h]) = FetchedSet
              /\ report'.msg # "wrote" => snap'[h] = snap[h]
              /\ \A g \in Hashes \ {h} : snap'[g] = snap[g] ]_vars

\* old = {A, B}, new = {B, C}: the snapshot was written and holds {B, C}
C2_Witness ==
    /\ ~args.keep_old
    /\ report.msg = "wrote"
    /\ old_data = {EntryA, EntryB}
    /\ new_data = {EntryB, EntryC}
    /\ EntryLines(snap[HashA]) = {EntryB, EntryC}

RECURSIVE HashesOf(_)
HashesOf(q) ==
    IF q = <<>> THEN <<>>
    ELSE IF q[1][2] = <<>> THEN HashesOf(Tail(q))
    ELSE <<q[1][1]>> \o HashesOf(Tail(q))

UrlOf(h) == CHOOSE u \in {UrlA, UrlB, <<>>} : Sha256Prefix(u) = h

Trimmed == pc = "at_write" /\ args.trim

\* the whitelist pass has just run: data is its result on before
Whitelisted ==
    /\ ~args.ignore_whitelist
    /\ pc = "at_trim" \/ (pc = "at_write" /\ ~args.trim)

\* some rule of the trim file matches the domain of the entry
RuleMatchesDomain(e) ==
    \E i \in 1..Len(Regexes(env.trim)) : Search(Regexes(env.trim)[i], Dom(e))

Reverse(s) == [ i \in 1..Len(s) |-> s[Len(s) + 1 - i] ]

LongAddrA == ZeroAddr \o <<"0">> \o TAB \o dom_a

\* C7: the trim pass removes exactly the entries whose domain (the entry
\* without its address and separator) matches at least one rule, keeps every
\* other entry and returns the number removed; the rules taken in the
\* opposite order give the same set.
C7_TrimByDomain ==
    Trimmed =>
       /\ data = { e \in before : ~RuleMatchesDomain(e) }
       /\ removed = Cardinality(before \ data)
       /\ data = apply_trim(before, Reverse(Regexes(env.trim))).data

\* C8: the whitelist pass removes exactly the entries equal, address and
\* domain, to an entry of the normalised whitelist; an entry that shares only
\* its domain with a whitelisted entry is kept, and the value returned is the
\* number of entries removed.
C8_WhitelistExactTuple ==
    Whitelisted =>
       LET w == Load(env.whitelist, {}).data
       IN  /\ \A e \in before :
                 e \in data <=>
                    ~\E x \in w : Addr(x) = Addr(e) /\ Dom(x) = Dom(e)
           /\ data \subseteq before
           /\ removed = Cardinality(before) - Cardinality(data)

\* the whitelist holds (0.0.0.00, a.co): that entry was removed and
\* (0.0.0.0, a.co), of the same domain, was kept
C8_Witness ==
    /\ Whitelisted
    /\ LongAddrA \in Load(env.whitelist, {}).data
    /\ LongAddrA \in before \ data
    /\ EntryA \in data
    /\ removed = 1

(***************************************************************************)
(* Properties of main() (checked under Spec).                              *)
(***************************************************************************)

AnyModeFlag ==
    args.backup \/ args.clean \/ args.combine \/ args.search_file \/ args.search

\* the command line passed the module-level checks
PassedStartup ==
    /\ ~(args.search /\ args.search_file)
    /\ ~(args.select # {} /\ args.ignore # {})
    /\ \A h \in args.select \cup args.ignore : Len(h) = hash_length

\* the invocation is over, and it had entered main()
Finished == pc = "idle" /\ PassedStartup

\* the modes main() is to call for the flags, in the order of the calls
ModesFor(a) ==
    IF a.search_file THEN <<"search_file">>
    ELSE IF a.search THEN <<"interactive_search">>
    ELSE (IF a.backup THEN <<"backup">> ELSE <<>>)
         \o (IF a.clean THEN <<"clean">> ELSE <<>>)
         \o (IF a.combine THEN <<"combine">> ELSE <<>>)

\* C9 as claimed: an invocation with mode flags, once over, has run exactly
\* one mode; when a search flag is set that mode is the search and neither
\* backup nor combine has run.
C9_ExactlyOneMode ==
    (Finished /\ AnyModeFlag) =>
       /\ Len(called) = 1
       /\ (args.search_file \/ args.search) =>
             called[1] \in {"search_file", "interactive_search"}

\* C9 as amended: with one search flag set, that search alone runs, whatever
\* the other flags; with both, nothing runs; with none, backup, clean and
\* combine run in that order, each iff its flag is set, so that an
\* invocation runs zero, one, two or three modes.
C9_ModesRunPerFlags ==
    /\ Finished => called = ModesFor(args)
    /\ ~PassedStartup => called = <<>>
    /\ Len(called) <= Len(ModesFor(args))
    /\ called = SubSeq(ModesFor(args), 1, Len(called))

\* an invocation with --backup and --combine is over and has run both
C9_Witness ==
    /\ Finished
    /\ args.backup /\ args.combine /\ ~args.clean
    /\ called = <<"backup", "combine">>

====
